---- MODULE Spec2Model ----
(***************************************************************************)
(* A model of the AWS-TLQ-Pipeline: the row normalisation of transform.py  *)
(* (_pick, _safe_float, _parse_duration, the categorizers, _transform_row) *)
(* and the batched load of load.py (lambda_handler).                       *)
(*                                                                         *)
(* Python values are tagged records: None, a str (a sequence of one-       *)
(* character strings), a float (an exact fraction n/d in lowest terms, or  *)
(* NaN).  A raised exception is the value Raised.  Binary rounding of      *)
(* floats is not modelled; the strings drawn are short decimals, for which *)
(* every comparison made by the code has the same outcome in both.         *)
(***************************************************************************)
EXTENDS Integers, Sequences, FiniteSets, TLC

VARIABLES
    val, dur,                  \* _parse_duration: its argument, its result
    p, labels,                 \* the categorizers: their argument, their results
    names, prow, dflt, picked, \* _pick: its arguments, its result
    row, out_row,              \* _transform_row: its argument, its result
    BATCH_SIZE, csv_rows, reader, batch, inserted, log, pc, result   \* load.lambda_handler

fnvars == <<val, dur, p, labels, names, prow, dflt, picked, row, out_row>>
loadvars == <<BATCH_SIZE, csv_rows, reader, batch, inserted, log, pc, result>>
vars == <<fnvars, loadvars>>

(***************************************************************************)
(* Python values                                                           *)
(***************************************************************************)
None == [t |-> "none"]
NaN == [t |-> "nan"]
Raised == [t |-> "raise"]
NotCalled == [t |-> "notcalled"]
Str(s) == [t |-> "str", s |-> s]

IsStr(x) == x.t = "str"
IsNum(x) == x.t = "num"
IsFloat(x) == x.t \in {"num", "nan"}

Abs(i) == IF i < 0 THEN -i ELSE i

RECURSIVE GCD(_, _)
GCD(a, b) == IF b = 0 THEN a ELSE GCD(b, a % b)

\* The float n/d (d # 0), in lowest terms with a positive denominator.
Num(n, d) ==
    LET g == GCD(Abs(n), Abs(d))
        sgn == IF d < 0 THEN -1 ELSE 1
    IN  [t |-> "num", n |-> sgn * (n \div g), d |-> sgn * (d \div g)]

IntF(i) == Num(i, 1)

\* Float arithmetic: NaN is absorbing.
Add(x, y) == IF IsNum(x) /\ IsNum(y) THEN Num(x.n * y.d + y.n * x.d, x.d * y.d) ELSE NaN
Mul(x, y) == IF IsNum(x) /\ IsNum(y) THEN Num(x.n * y.n, x.d * y.d) ELSE NaN
Div(x, y) == IF IsNum(x) /\ IsNum(y) THEN Num(x.n * y.d, x.d * y.n) ELSE NaN

\* Float comparisons with an integer: every comparison with NaN is false.
GE(x, k) == IsNum(x) /\ x.n >= k * x.d
GT(x, k) == IsNum(x) /\ x.n > k * x.d
LT(x, k) == IsNum(x) /\ x.n < k * x.d
NE(x, k) == ~(IsNum(x) /\ x.n = k * x.d)

(***************************************************************************)
(* Python strings                                                          *)
(***************************************************************************)
Whitespace == {" "}
DigitChars == <<"0", "1", "2", "3", "4", "5", "6", "7", "8", "9">>
Digits == {DigitChars[i] : i \in DOMAIN DigitChars}
DigitVal(c) == (CHOOSE i \in DOMAIN DigitChars : DigitChars[i] = c) - 1

UpperChars == <<"A", "C", "E", "F", "I", "L", "N", "O", "P", "R", "S", "T", "U", "X", "Y">>
LowerChars == <<"a", "c", "e", "f", "i", "l", "n", "o", "p", "r", "s", "t", "u", "x", "y">>

\* str.lower(), one character
LowerChar(c) ==
    IF \E i \in DOMAIN UpperChars : UpperChars[i] = c
    THEN LowerChars[CHOOSE i \in DOMAIN UpperChars : UpperChars[i] = c]
    ELSE c

lower(s) == [i \in DOMAIN s |-> LowerChar(s[i])]

RECURSIVE LStrip(_)
LStrip(s) == IF s # <<>> /\ Head(s) \in Whitespace THEN LStrip(Tail(s)) ELSE s

RECURSIVE RStrip(_)
RStrip(s) ==
    IF s # <<>> /\ s[Len(s)] \in Whitespace THEN RStrip(SubSeq(s, 1, Len(s) - 1)) ELSE s

\* str.strip()
strip(s) == RStrip(LStrip(s))

Contains(s, c) == \E i \in DOMAIN s : s[i] = c

\* str.split(sep) for a one-character separator
RECURSIVE split(_, _)
split(s, sep) ==
    IF ~Contains(s, sep) THEN <<s>>
    ELSE LET i == CHOOSE j \in DOMAIN s : s[j] = sep /\ \A k \in 1..(j - 1) : s[k] # sep
         IN  <<SubSeq(s, 1, i - 1)>> \o split(SubSeq(s, i + 1, Len(s)), sep)

RECURSIVE Pow10(_)
Pow10(k) == IF k = 0 THEN 1 ELSE 10 * Pow10(k - 1)

RECURSIVE DigitsValue(_)
DigitsValue(ds) ==
    IF ds = <<>> THEN 0 ELSE 10 * DigitsValue(SubSeq(ds, 1, Len(ds) - 1)) + DigitVal(ds[Len(ds)])

\* digits, with at most one point and at least one digit: "12", "1.5", ".5", "5."
IsDecimal(b) ==
    /\ \A i \in DOMAIN b : b[i] \in Digits \cup {"."}
    /\ Cardinality({i \in DOMAIN b : b[i] = "."}) <= 1
    /\ \E i \in DOMAIN b : b[i] \in Digits

DecimalValue(b) ==
    LET ds == SelectSeq(b, LAMBDA c : c # ".")
        frac == IF Contains(b, ".")
                THEN Len(b) - (CHOOSE i \in DOMAIN b : b[i] = ".")
                ELSE 0
    IN  Num(DigitsValue(ds), Pow10(frac))

\* float(x): surrounding whitespace is ignored, then an optional sign and a
\* decimal or "nan" in any case.  Anything else (None included) raises.
\* Exponents, underscores and infinities need characters that the strings
\* drawn below do not hold.
float(x) ==
    IF ~IsStr(x) THEN Raised
    ELSE LET s == strip(x.s)
             signed == s # <<>> /\ Head(s) \in {"-", "+"}
             body == IF signed THEN Tail(s) ELSE s
         IN  IF lower(body) = <<"n", "a", "n">> THEN NaN
             ELSE IF IsDecimal(body)
                  THEN IF signed /\ Head(s) = "-"
                       THEN Mul(IntF(-1), DecimalValue(body))
                       ELSE DecimalValue(body)
                  ELSE Raised

\* _safe_float without its try: the exception of float() goes on
_safe_float_unguarded(x) == float(x)

\* _safe_float with 0 for what float() cannot parse
_safe_float_zero(x) == LET f == float(x) IN IF f = Raised THEN IntF(0) ELSE f

\* transform.py _safe_float: any exception becomes None
_safe_float(x) == LET f == float(x) IN IF f = Raised THEN None ELSE f

(***************************************************************************)
(* _parse_duration                                                         *)
(***************************************************************************)
FallThrough == [t |-> "fallthrough"]

\* ClockForm with a two-part value read as H:MM instead of MM:SS
ClockFormHoursMinutes(s) ==
    LET raw == split(s, ":")
        parts == [i \in DOMAIN raw |-> float(Str(strip(raw[i])))]
    IN  IF Len(parts) = 3
        THEN IF \E i \in 1..3 : parts[i] = Raised THEN FallThrough
             ELSE Add(Add(Mul(parts[1], IntF(60)), parts[2]), Div(parts[3], IntF(60)))
        ELSE IF Len(parts) = 2
        THEN IF \E i \in 1..2 : parts[i] = Raised THEN FallThrough
             ELSE Add(Mul(parts[1], IntF(60)), parts[2])
        ELSE FallThrough

\* lines 52-62: the colon form; an exception of float() or a part count
\* other than 2 or 3 falls through to the next form
ClockForm(s) ==
    LET raw == split(s, ":")
        parts == [i \in DOMAIN raw |-> float(Str(strip(raw[i])))]
    IN  IF Len(parts) = 3
        THEN IF \E i \in 1..3 : parts[i] = Raised THEN FallThrough
             ELSE Add(Add(Mul(parts[1], IntF(60)), parts[2]), Div(parts[3], IntF(60)))
        ELSE IF Len(parts) = 2
        THEN IF \E i \in 1..2 : parts[i] = Raised THEN FallThrough
             ELSE Add(parts[1], Div(parts[2], IntF(60)))
        ELSE FallThrough

\* lines 64-67: the plain number, as minutes
PlainForm(s) == LET f == float(Str(s)) IN IF f = Raised THEN FallThrough ELSE f

\* lines 69-74: the millisecond form
MillisForm(s) ==
    LET ms == float(Str(s))
    IN  IF ms # Raised /\ GT(ms, 1000) THEN Div(Div(ms, IntF(1000)), IntF(60)) ELSE FallThrough

\* DurationForms with the millisecond form tried before the plain number
DurationFormsMillisFirst(s) ==
    <<[rule |-> "clock", value |-> IF Contains(s, ":") THEN ClockForm(s) ELSE FallThrough],
      [rule |-> "millis", value |-> MillisForm(s)],
      [rule |-> "plain", value |-> PlainForm(s)]>>

\* The forms of _parse_duration in the order the code tries them.
DurationForms(s) ==
    <<[rule |-> "clock", value |-> IF Contains(s, ":") THEN ClockForm(s) ELSE FallThrough],
      [rule |-> "plain", value |-> PlainForm(s)],
      [rule |-> "millis", value |-> MillisForm(s)]>>

\* _parse_duration with the rule that produced the result: first success wins
ParseDurationRule(v) ==
    IF v = None THEN [rule |-> "null", value |-> None]
    ELSE LET s == strip(v.s)
             forms == DurationForms(s)
             hits == {i \in DOMAIN forms : forms[i].value # FallThrough}
         IN  IF s = <<>> THEN [rule |-> "empty", value |-> None]
             ELSE IF hits = {} THEN [rule |-> "none", value |-> None]
             ELSE forms[CHOOSE i \in hits : \A j \in hits : i <= j]

_parse_duration(v) == ParseDurationRule(v).value

(***************************************************************************)
(* The categorizers                                                        *)
(***************************************************************************)
UNKNOWN == Str(<<"U", "n", "k", "n", "o", "w", "n">>)
HIGH == Str(<<"H", "i", "g", "h">>)
MEDIUM == Str(<<"M", "e", "d", "i", "u", "m">>)
LOW == Str(<<"L", "o", "w">>)
VERY_DANCEABLE == Str(<<"V", "e", "r", "y", " ", "D", "a", "n", "c", "e", "a", "b", "l", "e">>)
DANCEABLE == Str(<<"D", "a", "n", "c", "e", "a", "b", "l", "e">>)
EXPLICIT == Str(<<"E", "x", "p", "l", "i", "c", "i", "t">>)
CLEAN == Str(<<"C", "l", "e", "a", "n">>)

\* _popularity_tier with the upper band's bound exclusive
_popularity_tier_exclusive(x) ==
    IF x = None THEN UNKNOWN
    ELSE IF ~IsFloat(x) THEN Raised
    ELSE IF GT(x, 70) THEN HIGH
    ELSE IF GE(x, 40) THEN MEDIUM
    ELSE LOW

\* A comparison of anything but a float with a number raises TypeError.
_popularity_tier(x) ==
    IF x = None THEN UNKNOWN
    ELSE IF ~IsFloat(x) THEN Raised
    ELSE IF GE(x, 70) THEN HIGH
    ELSE IF GE(x, 40) THEN MEDIUM
    ELSE LOW

_danceability_label(x) ==
    IF x = None THEN UNKNOWN
    ELSE IF ~IsFloat(x) THEN Raised
    ELSE IF GE(x, 75) THEN VERY_DANCEABLE
    ELSE IF GE(x, 50) THEN DANCEABLE
    ELSE LOW

_energy_label(x) ==
    IF x = None THEN UNKNOWN
    ELSE IF ~IsFloat(x) THEN Raised
    ELSE IF GE(x, 70) THEN HIGH
    ELSE IF GE(x, 40) THEN MEDIUM
    ELSE LOW

\* line 113 and line 115: the two tuples of _explicit_label
ExplicitTrue ==
    {<<"t", "r", "u", "e">>, <<"t">>, <<"y", "e", "s">>, <<"y">>, <<"1">>,
     <<"e", "x", "p", "l", "i", "c", "i", "t">>}
ExplicitFalse ==
    {<<"f", "a", "l", "s", "e">>, <<"f">>, <<"n", "o">>, <<"n">>, <<"0">>,
     <<"c", "l", "e", "a", "n">>}

\* _explicit_label without the case folding
_explicit_label_cased(x) ==
    IF x = None THEN CLEAN
    ELSE IF IsFloat(x) THEN (IF NE(x, 0) THEN EXPLICIT ELSE CLEAN)
    ELSE LET s == strip(x.s)
         IN  IF s \in ExplicitTrue THEN EXPLICIT
             ELSE IF s \in ExplicitFalse THEN CLEAN
             ELSE CLEAN

_explicit_label(x) ==
    IF x = None THEN CLEAN
    ELSE IF IsFloat(x) THEN (IF NE(x, 0) THEN EXPLICIT ELSE CLEAN)
    ELSE LET s == lower(strip(x.s))
         IN  IF s \in ExplicitTrue THEN EXPLICIT
             ELSE IF s \in ExplicitFalse THEN CLEAN
             ELSE CLEAN

(***************************************************************************)
(* _pick                                                                   *)
(***************************************************************************)
\* A column name is a sequence: the name itself, after any byte-order marks.
BOM == "\\ufeff"
Col(name) == <<name>>

\* "name in row and row[name] not in (None, '')"
Holds(r, key) == key \in DOMAIN r /\ r[key] \notin {None, Str(<<>>)}

\* _pick with every plain name tried before any marked name
RECURSIVE PickMarked(_, _, _)
PickMarked(r, ns, default) ==
    IF ns = <<>> THEN default
    ELSE IF Holds(r, <<BOM>> \o Head(ns)) THEN r[<<BOM>> \o Head(ns)]
    ELSE PickMarked(r, Tail(ns), default)

_pick_plain_first(r, ns, default) ==
    IF ns = <<>> THEN default
    ELSE LET plain == {i \in DOMAIN ns : Holds(r, ns[i])}
         IN  IF plain # {} THEN r[ns[CHOOSE i \in plain : \A j \in plain : i <= j]]
             ELSE PickMarked(r, ns, default)

RECURSIVE _pick(_, _, _)
_pick(r, ns, default) ==
    IF ns = <<>> THEN default
    ELSE LET name == Head(ns)
             bom_name == <<BOM>> \o name
         IN  IF Holds(r, name) THEN r[name]
             ELSE IF Holds(r, bom_name) THEN r[bom_name]
             ELSE _pick(r, Tail(ns), default)

(***************************************************************************)
(* _transform_row                                                          *)
(***************************************************************************)
OUTPUT_FIELDS ==
    <<"track_name_clean", "artists_clean", "Album", "Genre", "duration_minutes",
      "Popularity", "popularity_tier", "Danceability", "danceability_label",
      "Energy", "energy_label", "explicit_label">>

\* the candidate column names of each field, lines 140-160
TrackNames == <<Col("song"), Col("track_name"), Col("name")>>
ArtistNames == <<Col("Artist(s)"), Col("artists"), Col("artist_name"), Col("artist")>>
AlbumNames == <<Col("Album"), Col("album"), Col("album_name")>>
GenreNames == <<Col("Genre"), Col("genre"), Col("track_genre")>>
LengthNames == <<Col("Length"), Col("duration"), Col("duration_ms")>>
PopularityNames == <<Col("Popularity"), Col("popularity")>>
DanceabilityNames == <<Col("Danceability"), Col("danceability")>>
EnergyNames == <<Col("Energy"), Col("energy")>>
ExplicitNames == <<Col("Explicit"), Col("explicit")>>

\* str(x) of a str
str(x) == x.s

\* _transform_row with the energy label taken from the danceability value
_transform_row_crossed(r) ==
    LET track_name == _pick(r, TrackNames, Str(<<>>))
        artist == _pick(r, ArtistNames, Str(<<>>))
        album == _pick(r, AlbumNames, Str(<<>>))
        genre == _pick(r, GenreNames, Str(<<>>))
        length_val == _pick(r, LengthNames, Str(<<>>))
        duration_minutes == _parse_duration(length_val)
        popularity_raw == _pick(r, PopularityNames, Str(<<>>))
        popularity == _safe_float(popularity_raw)
        pop_tier == _popularity_tier(popularity)
        dance_raw == _pick(r, DanceabilityNames, Str(<<>>))
        dance == _safe_float(dance_raw)
        dance_label == _danceability_label(dance)
        energy_raw == _pick(r, EnergyNames, Str(<<>>))
        energy == _safe_float(energy_raw)
        energy_lbl == _energy_label(dance)
        explicit_raw == _pick(r, ExplicitNames, Str(<<>>))
        explicit_lbl == _explicit_label(explicit_raw)
    IN  IF Raised \in {duration_minutes, popularity, pop_tier, dance, dance_label,
                       energy, energy_lbl, explicit_lbl}
        THEN Raised
        ELSE [track_name_clean |-> Str(strip(str(track_name))),
              artists_clean |-> Str(strip(str(artist))),
              Album |-> Str(strip(str(album))),
              Genre |-> Str(lower(strip(str(genre)))),
              duration_minutes |-> duration_minutes,
              Popularity |-> popularity,
              popularity_tier |-> pop_tier,
              Danceability |-> dance,
              danceability_label |-> dance_label,
              Energy |-> energy,
              energy_label |-> energy_lbl,
              explicit_label |-> explicit_lbl]

\* An exception raised by any statement leaves _transform_row: Raised.
_transform_row(r) ==
    LET track_name == _pick(r, TrackNames, Str(<<>>))
        artist == _pick(r, ArtistNames, Str(<<>>))
        album == _pick(r, AlbumNames, Str(<<>>))
        genre == _pick(r, GenreNames, Str(<<>>))
        length_val == _pick(r, LengthNames, Str(<<>>))
        duration_minutes == _parse_duration(length_val)
        popularity_raw == _pick(r, PopularityNames, Str(<<>>))
        popularity == _safe_float(popularity_raw)
        pop_tier == _popularity_tier(popularity)
        dance_raw == _pick(r, DanceabilityNames, Str(<<>>))
        dance == _safe_float(dance_raw)
        dance_label == _danceability_label(dance)
        energy_raw == _pick(r, EnergyNames, Str(<<>>))
        energy == _safe_float(energy_raw)
        energy_lbl == _energy_label(energy)
        explicit_raw == _pick(r, ExplicitNames, Str(<<>>))
        explicit_lbl == _explicit_label(explicit_raw)
    IN  IF Raised \in {duration_minutes, popularity, pop_tier, dance, dance_label,
                       energy, energy_lbl, explicit_lbl}
        THEN Raised
        ELSE [track_name_clean |-> Str(strip(str(track_name))),
              artists_clean |-> Str(strip(str(artist))),
              Album |-> Str(strip(str(album))),
              Genre |-> Str(lower(strip(str(genre)))),
              duration_minutes |-> duration_minutes,
              Popularity |-> popularity,
              popularity_tier |-> pop_tier,
              Danceability |-> dance,
              danceability_label |-> dance_label,
              Energy |-> energy,
              energy_label |-> energy_lbl,
              explicit_label |-> explicit_lbl]

(***************************************************************************)
(* The strings drawn                                                       *)
(***************************************************************************)
MaxLen == 4
MaxParts == 4

Alphabet == {"0", "1", "-", ".", ":", " ", "a", "n"}

Strings(A, n) == UNION {[1..k -> A] : k \in 0..n}

RECURSIVE Join(_)
Join(ps) ==
    IF Len(ps) = 0 THEN <<>>
    ELSE IF Len(ps) = 1 THEN ps[1]
    ELSE ps[1] \o <<":">> \o Join(Tail(ps))

\* clock parts: nothing, or one character that is not the colon
ClockParts == Strings(Alphabet \ {":"}, 1)

\* the arguments drawn for _parse_duration: None, every short string, and
\* every colon form of up to MaxParts clock parts
IsDurationInput(v) ==
    \/ v = None
    \/ \E s \in Strings(Alphabet, MaxLen) : v = Str(s)
    \/ \E ps \in Strings(ClockParts, MaxParts) : v = Str(Join(ps))

\* the numbers drawn for the categorizers: around every whole number of
\* -LowPct..MaxPct, one thousandth below, the number itself, one thousandth above
LowPct == 1
MaxPct == 101

NumberInputs ==
    {Num(1000 * i + e, 1000) : i \in (0 - LowPct)..MaxPct, e \in {0 - 1, 0, 1}}

\* the raw values drawn for _explicit_label
ExplicitInputs ==
    {Str(s) : s \in ExplicitTrue \cup ExplicitFalse}
    \cup {Str(<<>>), Str(<<" ">>),
          Str(<<"m", "a", "y", "b", "e">>),
          Str(<<"Y", "e", "s">>), Str(<<" ", "Y", "E", "S", " ">>),
          Str(<<"T", "R", "U", "E">>), Str(<<"T", "r", "u", "e", " ">>),
          Str(<<" ", "1">>), Str(<<"1", "0">>), Str(<<"1", ".", "0">>), Str(<<"2">>),
          Str(<<"E", "x", "p", "l", "i", "c", "i", "t">>),
          Str(<<"y", "e", "s", "s">>), Str(<<"t", "r", "u">>), Str(<<"o", "n">>),
          Str(<<"y", " ", "e", "s">>), Str(<<"N", "o">>), Str(<<"F", "a", "l", "s", "e">>),
          Str(<<"C", "L", "E", "A", "N">>), Str(<<"0", "0">>)}

LabelInputs == {None, NaN} \cup NumberInputs \cup ExplicitInputs

\* the rows drawn for _pick
MaxPickCols == 2

PickKeys ==
    {TrackNames[i] : i \in DOMAIN TrackNames}
    \cup {<<BOM>> \o TrackNames[i] : i \in DOMAIN TrackNames}
    \cup {<<BOM, BOM>> \o Col("song"), Col("title")}

PickValues == {None, Str(<<>>), Str(<<"a">>), Str(<<"b">>)}

PickLists ==
    {TrackNames, <<Col("name"), Col("track_name"), Col("song")>>, <<Col("track_name")>>, <<>>}

PickDefaults == {Str(<<>>), Str(<<"d">>)}

\* every row of at most n columns named in K, with values of V
RECURSIVE Rows(_, _, _)
Rows(K, V, n) ==
    IF n = 0 THEN {<<>>}
    ELSE LET less == Rows(K, V, n - 1)
         IN  less \cup {(k :> v) @@ r : r \in less, k \in K, v \in V}

\* the rows drawn for _transform_row
MaxCols == 1

NamesOf(ns) == {ns[i] : i \in DOMAIN ns} \cup {<<BOM>> \o ns[i] : i \in DOMAIN ns}

RowKeys ==
    NamesOf(TrackNames) \cup NamesOf(ArtistNames) \cup NamesOf(AlbumNames)
    \cup NamesOf(GenreNames) \cup NamesOf(LengthNames) \cup NamesOf(PopularityNames)
    \cup NamesOf(DanceabilityNames) \cup NamesOf(EnergyNames) \cup NamesOf(ExplicitNames)
    \cup {Col("id")}

RowValues ==
    {None, Str(<<>>), Str(<<" ">>), Str(<<"0">>), Str(<<"3", "9", ".", "9">>),
     Str(<<"7", "0">>), Str(<<"1", ":", "3", "0">>), Str(<<"n", "a", "n">>),
     Str(<<"x">>), Str(<<"1", ":", "x">>), Str(<<" ", "Y", "e", "s", " ">>)}

(***************************************************************************)
(* The calls                                                               *)
(***************************************************************************)
NoLabels ==
    [popularity_tier |-> NotCalled, danceability_label |-> NotCalled,
     energy_label |-> NotCalled, explicit_label |-> NotCalled]

IdleDuration == val = NotCalled /\ dur = NotCalled
IdleLabels == p = NotCalled /\ labels = NoLabels
IdlePick == names = <<>> /\ prow = <<>> /\ dflt = NotCalled /\ picked = NotCalled
IdleRow == row = <<>> /\ out_row = NotCalled
IdleLoad ==
    /\ BATCH_SIZE = 0 /\ csv_rows = <<>> /\ reader = <<>> /\ batch = <<>> /\ inserted = 0
    /\ log = <<>> /\ pc = "idle" /\ result = NotCalled

\* _parse_duration(val)
InitDuration ==
    /\ IsDurationInput(val) /\ dur = NotCalled
    /\ IdleLabels /\ IdlePick /\ IdleRow /\ IdleLoad

CallParseDuration ==
    /\ val # NotCalled /\ dur = NotCalled
    /\ dur' = ParseDurationRule(val)
    /\ UNCHANGED <<val, p, labels, names, prow, dflt, picked, row, out_row, loadvars>>

NextDuration == CallParseDuration

SpecDuration == InitDuration /\ [][NextDuration]_vars

\* the four label functions, each on p
InitLabels ==
    /\ p \in LabelInputs /\ labels = NoLabels
    /\ IdleDuration /\ IdlePick /\ IdleRow /\ IdleLoad

LabelRest == <<val, dur, p, names, prow, dflt, picked, row, out_row, loadvars>>

CallPopularityTier ==
    /\ p # NotCalled /\ labels.popularity_tier = NotCalled
    /\ labels' = [labels EXCEPT !.popularity_tier = _popularity_tier(p)]
    /\ UNCHANGED LabelRest

CallDanceabilityLabel ==
    /\ p # NotCalled /\ labels.danceability_label = NotCalled
    /\ labels' = [labels EXCEPT !.danceability_label = _danceability_label(p)]
    /\ UNCHANGED LabelRest

CallEnergyLabel ==
    /\ p # NotCalled /\ labels.energy_label = NotCalled
    /\ labels' = [labels EXCEPT !.energy_label = _energy_label(p)]
    /\ UNCHANGED LabelRest

CallExplicitLabel ==
    /\ p # NotCalled /\ labels.explicit_label = NotCalled
    /\ labels' = [labels EXCEPT !.explicit_label = _explicit_label(p)]
    /\ UNCHANGED LabelRest

NextLabels ==
    \/ CallPopularityTier
    \/ CallDanceabilityLabel
    \/ CallEnergyLabel
    \/ CallExplicitLabel

SpecLabels == InitLabels /\ [][NextLabels]_vars

\* _pick(prow, *names, default=dflt)
InitPick ==
    /\ names \in PickLists
    /\ prow \in Rows(PickKeys, PickValues, MaxPickCols)
    /\ dflt \in PickDefaults
    /\ picked = NotCalled
    /\ IdleDuration /\ IdleLabels /\ IdleRow /\ IdleLoad

CallPick ==
    /\ dflt # NotCalled /\ picked = NotCalled
    /\ picked' = _pick(prow, names, dflt)
    /\ UNCHANGED <<val, dur, p, labels, names, prow, dflt, row, out_row, loadvars>>

NextPick == CallPick

SpecPick == InitPick /\ [][NextPick]_vars

\* _transform_row(row)
InitRow ==
    /\ row \in Rows(RowKeys, RowValues, MaxCols)
    /\ out_row = NotCalled
    /\ IdleDuration /\ IdleLabels /\ IdlePick /\ IdleLoad

CallTransformRow ==
    /\ out_row = NotCalled
    /\ out_row' = _transform_row(row)
    /\ UNCHANGED <<val, dur, p, labels, names, prow, dflt, picked, row, loadvars>>

NextRow == CallTransformRow

SpecRow == InitRow /\ [][NextRow]_vars

(***************************************************************************)
(* load.py lambda_handler, from the connection on (lines 108-167)          *)
(***************************************************************************)
MaxRows == 5
MaxBatch == 3

\* One entry of log per call on the connection or its cursor, in call order:
\* the call, the rows handed to it, and whether it returned (ok) or raised.
Call(op, rows, ok) == [op |-> op, rows |-> rows, ok |-> ok]

\* The transformed CSV holds n data rows, here numbered in file order.
InitLoad ==
    /\ BATCH_SIZE \in 0..MaxBatch
    /\ \E n \in 0..MaxRows : csv_rows = [i \in 1..n |-> i]
    /\ reader = csv_rows
    /\ batch = <<>>
    /\ inserted = 0
    /\ log = <<>>
    /\ pc = "connect"
    /\ result = NotCalled
    /\ IdleDuration /\ IdleLabels /\ IdlePick /\ IdleRow

\* lines 108-118
Connect ==
    /\ pc = "connect"
    /\ log' = Append(log, Call("connect", <<>>, TRUE))
    /\ pc' = "create"
    /\ UNCHANGED <<fnvars, BATCH_SIZE, csv_rows, reader, batch, inserted, result>>

\* pymysql.connect raises: nothing was opened, the handler is left
ConnectFails ==
    /\ pc = "connect"
    /\ log' = Append(log, Call("connect", <<>>, FALSE))
    /\ pc' = "raised"
    /\ UNCHANGED <<fnvars, BATCH_SIZE, csv_rows, reader, batch, inserted, result>>

\* line 123
CreateTable ==
    /\ pc = "create"
    /\ log' = Append(log, Call("create", <<>>, TRUE))
    /\ pc' = "for"
    /\ UNCHANGED <<fnvars, BATCH_SIZE, csv_rows, reader, batch, inserted, result>>

\* CreateTableFails with the statement outside the try: no finally runs
CreateTableFailsUnguarded ==
    /\ pc = "create"
    /\ log' = Append(log, Call("create", <<>>, FALSE))
    /\ pc' = "raised"
    /\ UNCHANGED <<fnvars, BATCH_SIZE, csv_rows, reader, batch, inserted, result>>

CreateTableFails ==
    /\ pc = "create"
    /\ log' = Append(log, Call("create", <<>>, FALSE))
    /\ pc' = "finally_raising"
    /\ UNCHANGED <<fnvars, BATCH_SIZE, csv_rows, reader, batch, inserted, result>>

\* the flush test with > for >=
FullStrict(b) == Len(b) > BATCH_SIZE

\* line 144: the test that flushes the batch
Full(b) == Len(b) >= BATCH_SIZE

\* lines 126-148, one iteration of the loop: append, and flush a full batch
LoopKeep ==
    /\ pc = "for" /\ reader # <<>>
    /\ ~Full(Append(batch, Head(reader)))
    /\ batch' = Append(batch, Head(reader))
    /\ reader' = Tail(reader)
    /\ UNCHANGED <<fnvars, BATCH_SIZE, csv_rows, inserted, log, pc, result>>

LoopFlush ==
    /\ pc = "for" /\ reader # <<>>
    /\ LET full == Append(batch, Head(reader))
       IN  /\ Full(full)
           /\ log' = Append(log, Call("executemany", full, TRUE))
           /\ inserted' = inserted + Len(full)
    /\ batch' = <<>>
    /\ reader' = Tail(reader)
    /\ UNCHANGED <<fnvars, BATCH_SIZE, csv_rows, pc, result>>

LoopFlushFails ==
    /\ pc = "for" /\ reader # <<>>
    /\ LET full == Append(batch, Head(reader))
       IN  /\ Full(full)
           /\ log' = Append(log, Call("executemany", full, FALSE))
           /\ batch' = full
    /\ reader' = Tail(reader)
    /\ pc' = "finally_raising"
    /\ UNCHANGED <<fnvars, BATCH_SIZE, csv_rows, inserted, result>>

\* lines 150-154, after the loop: the rest of the rows, if any
FinalNone ==
    /\ pc = "for" /\ reader = <<>> /\ batch = <<>>
    /\ pc' = "commit"
    /\ UNCHANGED <<fnvars, BATCH_SIZE, csv_rows, reader, batch, inserted, log, result>>

FinalFlush ==
    /\ pc = "for" /\ reader = <<>> /\ batch # <<>>
    /\ log' = Append(log, Call("executemany", batch, TRUE))
    /\ inserted' = inserted + Len(batch)
    /\ batch' = <<>>
    /\ pc' = "commit"
    /\ UNCHANGED <<fnvars, BATCH_SIZE, csv_rows, reader, result>>

FinalFlushFails ==
    /\ pc = "for" /\ reader = <<>> /\ batch # <<>>
    /\ log' = Append(log, Call("executemany", batch, FALSE))
    /\ pc' = "finally_raising"
    /\ UNCHANGED <<fnvars, BATCH_SIZE, csv_rows, reader, batch, inserted, result>>

\* line 156
Commit ==
    /\ pc = "commit"
    /\ log' = Append(log, Call("commit", <<>>, TRUE))
    /\ pc' = "finally"
    /\ UNCHANGED <<fnvars, BATCH_SIZE, csv_rows, reader, batch, inserted, result>>

CommitFails ==
    /\ pc = "commit"
    /\ log' = Append(log, Call("commit", <<>>, FALSE))
    /\ pc' = "finally_raising"
    /\ UNCHANGED <<fnvars, BATCH_SIZE, csv_rows, reader, batch, inserted, result>>

\* lines 158-167: finally, then the return value
CloseAndReturn ==
    /\ pc = "finally"
    /\ log' = Append(log, Call("close", <<>>, TRUE))
    /\ result' = [status |-> "ok", inserted |-> inserted]
    /\ pc' = "returned"
    /\ UNCHANGED <<fnvars, BATCH_SIZE, csv_rows, reader, batch, inserted>>

\* lines 158-160: finally, then the exception goes on to the caller
CloseAndRaise ==
    /\ pc = "finally_raising"
    /\ log' = Append(log, Call("close", <<>>, TRUE))
    /\ pc' = "raised"
    /\ UNCHANGED <<fnvars, BATCH_SIZE, csv_rows, reader, batch, inserted, result>>

NextLoad ==
    \/ Connect
    \/ ConnectFails
    \/ CreateTable
    \/ CreateTableFails
    \/ LoopKeep
    \/ LoopFlush
    \/ LoopFlushFails
    \/ FinalNone
    \/ FinalFlush
    \/ FinalFlushFails
    \/ Commit
    \/ CommitFails
    \/ CloseAndReturn
    \/ CloseAndRaise

SpecLoad == InitLoad /\ [][NextLoad]_vars

(***************************************************************************)
(* Properties of _parse_duration (SpecDuration)                            *)
(***************************************************************************)
\* the trimmed argument, and whether float() takes a string as a number
Trimmed(v) == strip(v.s)
Numeric(s) == float(Str(s)) # Raised

HasColon(v) == v # None /\ Contains(Trimmed(v), ":")

\* the value, in sixtieths of a minute, of the clock form h:m:sec
Sixtieths(h, m, sec) == Add(Add(Mul(h, IntF(3600)), Mul(m, IntF(60))), sec)

\* C3: a colon value of exactly three numeric parts gives H*60 + MM + SS/60, one
\* of exactly two numeric parts gives MM + SS/60; a colon value with a part that
\* is no number, or with another number of parts, gives None; None, empty and
\* blank values and colon-free text that is no number give None; nothing raises.
C3_ClockForm ==
    dur # NotCalled =>
        /\ dur.value # Raised
        /\ (val = None \/ Trimmed(val) = <<>>) => dur.value = None
        /\ HasColon(val) =>
            LET raw == split(Trimmed(val), ":")
                allnum == \A i \in DOMAIN raw : Numeric(raw[i])
                f == [i \in DOMAIN raw |-> float(Str(raw[i]))]
            IN  /\ (Len(raw) = 3 /\ allnum) =>
                       /\ IsFloat(dur.value)
                       /\ Mul(dur.value, IntF(60)) = Sixtieths(f[1], f[2], f[3])
                /\ (Len(raw) = 2 /\ allnum) =>
                       /\ IsFloat(dur.value)
                       /\ Mul(dur.value, IntF(60)) = Sixtieths(IntF(0), f[1], f[2])
                /\ (Len(raw) \notin {2, 3} \/ ~allnum) => dur.value = None
        /\ (val # None /\ ~HasColon(val) /\ ~Numeric(Trimmed(val))) => dur.value = None

\* "1:1:1" is 61 minutes and one second
C3_Witness ==
    /\ val = Str(<<"1", ":", "1", ":", "1">>)
    /\ dur # NotCalled
    /\ dur.value = Num(3661, 60)

Nullable(x) == x = None \/ IsFloat(x)

\* the bands with "Low" as the values below the lower bound
BandsBelow(label, x, hi, lo, top, middle) ==
    /\ label = UNKNOWN <=> x = None
    /\ x # None =>
        /\ label = top <=> GE(x, hi)
        /\ label = middle <=> (GE(x, lo) /\ LT(x, hi))
        /\ label = LOW <=> LT(x, lo)

\* the bands with "Low" as the rest: every float that is not >= the lower bound
BandsElse(label, x, hi, lo, top, middle) ==
    /\ label \in {UNKNOWN, top, middle, LOW}
    /\ label = UNKNOWN <=> x = None
    /\ x # None =>
        /\ label = top <=> GE(x, hi)
        /\ label = middle <=> (GE(x, lo) /\ LT(x, hi))
        /\ label = LOW <=> ~GE(x, lo)

\* C5 as stated: each categorizer gives "Unknown" for None, and otherwise its
\* top label iff value >= upper bound, its middle label iff lower <= value <
\* upper, and "Low" iff value < lower bound (70/40, 75/50, 70/40).
C5_BandsAsClaimed ==
    Nullable(p) =>
        /\ labels.popularity_tier # NotCalled =>
               BandsBelow(labels.popularity_tier, p, 70, 40, HIGH, MEDIUM)
        /\ labels.danceability_label # NotCalled =>
               BandsBelow(labels.danceability_label, p, 75, 50, VERY_DANCEABLE, DANCEABLE)
        /\ labels.energy_label # NotCalled =>
               BandsBelow(labels.energy_label, p, 70, 40, HIGH, MEDIUM)

\* C5 amended: as stated, but "Low" iff the value is not >= the lower bound,
\* which is every value below it and NaN.
C5_Bands ==
    Nullable(p) =>
        /\ labels.popularity_tier # NotCalled =>
               BandsElse(labels.popularity_tier, p, 70, 40, HIGH, MEDIUM)
        /\ labels.danceability_label # NotCalled =>
               BandsElse(labels.danceability_label, p, 75, 50, VERY_DANCEABLE, DANCEABLE)
        /\ labels.energy_label # NotCalled =>
               BandsElse(labels.energy_label, p, 70, 40, HIGH, MEDIUM)

\* exactly 70: "High", "Danceable", "High"
C5_Witness ==
    /\ p = IntF(70)
    /\ labels.popularity_tier = HIGH
    /\ labels.danceability_label = DANCEABLE
    /\ labels.energy_label = HIGH

\* the words that mean explicit
ExplicitWords ==
    {<<"t", "r", "u", "e">>, <<"t">>, <<"y", "e", "s">>, <<"y">>, <<"1">>,
     <<"e", "x", "p", "l", "i", "c", "i", "t">>}

\* C6: _explicit_label gives "Explicit" exactly for a non-zero number and for a
\* string whose trimmed, lower-cased form is one of true, t, yes, y, 1, explicit;
\* everything else gives "Clean"; there is no third value and nothing raises.
C6_ExplicitLabel ==
    labels.explicit_label # NotCalled =>
        /\ labels.explicit_label \in {EXPLICIT, CLEAN}
        /\ labels.explicit_label = EXPLICIT <=>
               \/ IsFloat(p) /\ NE(p, 0)
               \/ IsStr(p) /\ lower(strip(p.s)) \in ExplicitWords

\* " YES " is explicit
C6_Witness ==
    /\ p = Str(<<" ", "Y", "E", "S", " ">>)
    /\ labels.explicit_label = EXPLICIT

(***************************************************************************)
(* Properties of _pick (SpecPick)                                          *)
(***************************************************************************)
Marked(name) == <<BOM>> \o name

\* the row holds, under this column name, a value that is neither None nor ""
NonEmptyAt(r, key) == key \in DOMAIN r /\ r[key] # None /\ r[key] # Str(<<>>)

Qualifies(r, name) == NonEmptyAt(r, name) \/ NonEmptyAt(r, Marked(name))

\* C2: _pick returns the value of the first candidate, in list order, that the
\* row holds non-empty under its plain name or else under its marked name; the
\* plain name of a candidate is read before its marked name; without such a
\* candidate it returns the default.
C2_PickFirstCandidate ==
    picked # NotCalled =>
        LET q == {i \in DOMAIN names : Qualifies(prow, names[i])}
        IN  IF q = {} THEN picked = dflt
            ELSE LET i == CHOOSE j \in q : \A k \in q : j <= k
                 IN  picked = IF NonEmptyAt(prow, names[i])
                               THEN prow[names[i]]
                               ELSE prow[Marked(names[i])]

\* "track_name" plain and "song" only marked: the earlier candidate wins
C2_Witness ==
    /\ names = TrackNames
    /\ prow = (Marked(Col("song")) :> Str(<<"a">>)) @@ (Col("track_name") :> Str(<<"b">>))
    /\ picked = Str(<<"a">>)

(***************************************************************************)
(* Properties of _transform_row (SpecRow)                                  *)
(***************************************************************************)
\* the twelve canonical names
CanonicalNames ==
    {"track_name_clean", "artists_clean", "Album", "Genre", "duration_minutes",
     "Popularity", "popularity_tier", "Danceability", "danceability_label",
     "Energy", "energy_label", "explicit_label"}

Returned == out_row # NotCalled /\ out_row # Raised

\* C1: for every row, the empty one included, _transform_row returns without
\* raising a record whose keys are exactly the twelve canonical names, which
\* are the names of OUTPUT_FIELDS.
C1_TwelveKeys ==
    /\ Len(OUTPUT_FIELDS) = Cardinality(CanonicalNames)
    /\ {OUTPUT_FIELDS[i] : i \in DOMAIN OUTPUT_FIELDS} = CanonicalNames
    /\ out_row # NotCalled =>
           /\ out_row # Raised
           /\ DOMAIN out_row = CanonicalNames

\* text where a number is expected: still the twelve keys
C1_Witness ==
    /\ row = (Col("Popularity") :> Str(<<"x">>))
    /\ Returned
    /\ DOMAIN out_row = CanonicalNames

\* no candidate column of the field holds a non-empty value
NoValue(r, ns) == \A i \in DOMAIN ns : ~Qualifies(r, ns[i])

\* the value the field reads
Resolved(r, ns) == _pick(r, ns, Str(<<>>))

\* a duration value that parses: two or three numeric clock parts, or a number
DurationParses(v) ==
    LET raw == split(Trimmed(v), ":")
    IN  IF Len(raw) > 1
        THEN Len(raw) \in {2, 3} /\ \A i \in DOMAIN raw : Numeric(raw[i])
        ELSE Numeric(Trimmed(v))

ZeroText == Str(<<"0">>)

\* C7: each numeric field of the returned record is None exactly when no
\* candidate column of the field holds a non-empty value or the value read
\* does not parse; such an input never becomes 0; and the value "0" becomes
\* the number 0, whose label is "Low".
C7_NullIffMissing ==
    Returned =>
        /\ out_row.Popularity = None <=>
               (NoValue(row, PopularityNames) \/ ~Numeric(Resolved(row, PopularityNames).s))
        /\ out_row.Danceability = None <=>
               (NoValue(row, DanceabilityNames) \/ ~Numeric(Resolved(row, DanceabilityNames).s))
        /\ out_row.Energy = None <=>
               (NoValue(row, EnergyNames) \/ ~Numeric(Resolved(row, EnergyNames).s))
        /\ out_row.duration_minutes = None <=>
               (NoValue(row, LengthNames) \/ ~DurationParses(Resolved(row, LengthNames)))
        /\ Resolved(row, PopularityNames) = ZeroText =>
               out_row.Popularity = IntF(0) /\ out_row.popularity_tier = LOW
        /\ Resolved(row, DanceabilityNames) = ZeroText =>
               out_row.Danceability = IntF(0) /\ out_row.danceability_label = LOW
        /\ Resolved(row, EnergyNames) = ZeroText =>
               out_row.Energy = IntF(0) /\ out_row.energy_label = LOW
        /\ Resolved(row, LengthNames) = ZeroText => out_row.duration_minutes = IntF(0)

\* a popularity of "0" is the number 0 and "Low", beside fields that are None
C7_Witness ==
    /\ row = (Col("popularity") :> ZeroText)
    /\ Returned
    /\ out_row.Popularity = IntF(0)
    /\ out_row.popularity_tier = LOW
    /\ out_row.Energy = None

\* the columns of the row that a field reads
Own(r, ns) == [k \in DOMAIN r \cap NamesOf(ns) |-> r[k]]

\* C8: in the returned record no label is None; each threshold label is its
\* categorizer's value for the record's own numeric field and is "Unknown"
\* exactly when that field is None; explicit_label is "Explicit" or "Clean",
\* and "Clean" without a non-empty explicit column; and each label is what it
\* is for the row cut down to the columns of its own field.
C8_LabelsOfOwnField ==
    Returned =>
        /\ \A f \in {"popularity_tier", "danceability_label", "energy_label", "explicit_label"} :
               out_row[f] # None /\ IsStr(out_row[f])
        /\ out_row.popularity_tier \in {UNKNOWN, HIGH, MEDIUM, LOW}
        /\ out_row.danceability_label \in {UNKNOWN, VERY_DANCEABLE, DANCEABLE, LOW}
        /\ out_row.energy_label \in {UNKNOWN, HIGH, MEDIUM, LOW}
        /\ out_row.popularity_tier = UNKNOWN <=> out_row.Popularity = None
        /\ out_row.danceability_label = UNKNOWN <=> out_row.Danceability = None
        /\ out_row.energy_label = UNKNOWN <=> out_row.Energy = None
        /\ BandsElse(out_row.popularity_tier, out_row.Popularity, 70, 40, HIGH, MEDIUM)
        /\ BandsElse(out_row.danceability_label, out_row.Danceability, 75, 50,
                     VERY_DANCEABLE, DANCEABLE)
        /\ BandsElse(out_row.energy_label, out_row.Energy, 70, 40, HIGH, MEDIUM)
        /\ out_row.explicit_label \in {EXPLICIT, CLEAN}
        /\ NoValue(row, ExplicitNames) => out_row.explicit_label = CLEAN
        /\ out_row.popularity_tier = _transform_row(Own(row, PopularityNames)).popularity_tier
        /\ out_row.danceability_label =
               _transform_row(Own(row, DanceabilityNames)).danceability_label
        /\ out_row.energy_label = _transform_row(Own(row, EnergyNames)).energy_label
        /\ out_row.explicit_label = _transform_row(Own(row, ExplicitNames)).explicit_label

\* a danceability of "70" is "Danceable" and leaves the other labels alone
C8_Witness ==
    /\ row = (Col("Danceability") :> Str(<<"7", "0">>))
    /\ Returned
    /\ out_row.danceability_label = DANCEABLE
    /\ out_row.energy_label = UNKNOWN
    /\ out_row.popularity_tier = UNKNOWN
    /\ out_row.explicit_label = CLEAN

(***************************************************************************)
(* Properties of the load (SpecLoad)                                       *)
(***************************************************************************)
Calls(op) == SelectSeq(log, LAMBDA c : c.op = op)
Places(op) == {i \in DOMAIN log : log[i].op = op}
Failed == {i \in DOMAIN log : ~log[i].ok}

RECURSIVE Concat(_)
Concat(cs) == IF cs = <<>> THEN <<>> ELSE Head(cs).rows \o Concat(Tail(cs))

\* the call just made, if this step made one
Flushed == Len(log') = Len(log) + 1 /\ log'[Len(log')] = Call("executemany", log'[Len(log')].rows, TRUE)

\* what holds of a run that returned
LoadedAll ==
    LET ex == Calls("executemany")
    IN  /\ Failed = {}
        /\ Concat(ex) = csv_rows
        /\ \A i \in DOMAIN ex :
               /\ Len(ex[i].rows) >= 1
               /\ Len(ex[i].rows) <= BATCH_SIZE
               /\ i < Len(ex) => Len(ex[i].rows) = BATCH_SIZE
        /\ result.inserted = Len(csv_rows)
        /\ inserted = Len(csv_rows)
        /\ batch = <<>>
        /\ Cardinality(Places("commit")) = 1
        /\ \A c \in Places("commit") : \A e \in Places("executemany") : e < c

\* C9: with BATCH_SIZE >= 1, a run without a failing statement hands every row
\* to executemany once, in file order, in batches of BATCH_SIZE but for a last
\* one of 1..BATCH_SIZE, never an empty one; it returns the number of rows as
\* "inserted" and commits once, after the last batch; and the batch is empty
\* after each flush.
C9_BatchesCoverRows ==
    /\ [](BATCH_SIZE >= 1 /\ pc = "returned" => LoadedAll)
    /\ [][Flushed => batch' = <<>>]_vars

\* five rows in batches of two: 2, 2 and 1
C9_Witness ==
    /\ pc = "returned"
    /\ BATCH_SIZE = 2
    /\ Len(csv_rows) = 5
    /\ Len(Calls("executemany")) = 3
    /\ result.inserted = 5

====
